---- MODULE Spec2Model ----
(***************************************************************************)
(* The Wordchain tournament contract (src/src/wordchain.rs) as a state     *)
(* machine.  Every public method is one action; a call that panics         *)
(* (require!, env::panic_str, unwrap on None, division by zero, index out  *)
(* of bounds) changes nothing, as the NEAR runtime discards the writes of a *)
(* failed receipt: the action of a method is enabled exactly when the call *)
(* does not panic, and <method>_panic gives the message of the panic, ""   *)
(* for none.  last_call names the method of the last call that returned.   *)
(*                                                                         *)
(* Left out of the records: created_at and join_date, which are written    *)
(* once and never read, and the `paused` flag, which no method but         *)
(* pause_contract / unpause_contract reads.                                *)
(***************************************************************************)
EXTENDS Integers, Sequences, FiniteSets, TLC

DAY_TO_MS == 86400000

\* ------------------------------------------------------------------ bounds
\* tournaments stored
MaxTournaments == 1
\* player entries of one tournament
MaxPlayers == 5
\* block time, in days after deployment
MaxDays == 1
\* escrow balance of one token
MaxBalance == 2
\* withdraw_value calls that return (SpecWithdraw)
MaxWithdrawals == 2
\* tournaments stored where several are (SpecWide), and player entries of
\* one tournament in SpecWide and SpecWithdraw
MaxWide == 2
MaxWidePlayers == 2

\* ------------------------------------------------------------- input sets
OWNER == "owner.near"
CONTRACT == "wordchain.near"
Accounts == {OWNER, "alice.near", "bob.near"}
\* token contracts (the predecessor of ft_on_transfer, the ft_address of create)
Tokens == {"usdt.near", "wct.near"}
Creators == {OWNER, "alice.near"}
\* the ft_address given to create_tournament
CreateTokens == {"usdt.near"}
Names == {"n1"}
Keys == {"k1"}
\* the names and keys given to create_tournament where several tournaments
\* are stored
WideNames == {"n1", "n2"}
WideKeys == {"k1", "k2"}
WideMinimumStakes == {2}
\* the keys offered to join_tournament
JoinKeys == {"k1", "k2"}
Countries == {"NGA", "GHA"}
GameTypeIds == {"chain", "ludo"}
Amounts == {2}
MinimumStakes == {1, 2}
Intervals == {1}
Scores == {0, 1, 3}
\* the arguments of set_min_players that are tried
MinPlayersArgs == {3, 4, 6}

\* the percentage_stake_commission arguments of new and of
\* set_percentage_stake_commission that are tried (basis points)
CommissionArgs == {999, 1000, 1001, 5000, 10000, 10001}
\* the predecessors of the administrative calls: the contract's own account
\* can call the contract too
AdminCallers == Accounts \cup {CONTRACT}
\* the accounts proposed to transfer_ownership
NewOwners == Accounts

\* the amounts asked of withdraw_value
WithdrawAmounts == {1, 2}
\* the tournament_id of a transfer that withdraw_value scheduled
NO_TOURNAMENT == -1

\* Option<T>: None is <<>>, Some(x) is <<x>>
None == <<>>
Some(x) == <<x>>
unwrap_or_default(o) == IF o = None THEN "" ELSE o[1]
unwrap_or_zero(o) == IF o = None THEN 0 ELSE o[1]

PUBLIC == "PUBLIC"
PRIVATE == "PRIVATE"
COUNTRY_BASED == "COUNTRY_BASED"
TournamentType == {PUBLIC, PRIVATE, COUNTRY_BASED}

PENDING_VOLUME == "PENDING_VOLUME"
ACTIVE == "ACTIVE"
DELETED == "DELETED"
CLOSED == "CLOSED"
TournamentState == {PENDING_VOLUME, ACTIVE, DELETED, CLOSED}

VARIABLES
    owner,
    pending_owner,
    min_tournament_players,
    percentage_stake_commission,
    game_types,
    supported_countries,
    tournaments,
    stakes,
    stakes_g,
    stake_payouts,
    block_timestamp_ms,
    receipts,
    last_call

vars == <<owner, pending_owner, min_tournament_players, percentage_stake_commission,
          game_types, supported_countries, tournaments, stakes, stakes_g,
          stake_payouts, block_timestamp_ms, receipts, last_call>>

\* the persisted state of the contract
contract == <<owner, pending_owner, min_tournament_players, percentage_stake_commission,
              game_types, supported_countries, tournaments, stakes, stakes_g,
              stake_payouts>>

\* ---------------------------------------------------------------- helpers
\* Vector::get(index): indices are 0-based
VectorGet(v, index) == IF index < Len(v) THEN Some(v[index + 1]) ELSE None

\* Vector::replace(index, element)
VectorReplace(v, index, e) == [v EXCEPT ![index + 1] = e]

\* LookupMap::get on a map kept as a function over the keys present
MapGet(m, k) == IF k \in DOMAIN m THEN Some(m[k]) ELSE None

\* LookupMap::insert
MapInsert(m, k, v) == [x \in DOMAIN m \cup {k} |-> IF x = k THEN v ELSE m[x]]

\* self.stakes.get(account): the outer map stores one inner LookupMap per
\* depositor, and every inner map is built as LookupMap::new(b"g"): the
\* stored value is only that prefix, and the cells of every inner map live
\* at the storage keys "g" ++ token, which stakes_g holds.
StakesGet(account) == IF account \in stakes THEN Some(stakes_g) ELSE None

\* mutant of get_gametypes: every identifier is a registered game type
get_gametypes_of_any(identifier) ==
    <<[identifier |-> identifier, max_score |-> 2]>>

get_gametypes(identifier) ==
    SelectSeq(game_types, LAMBDA game : game.identifier = identifier)

\* mutant of LastMatch: the name is not compared
RECURSIVE LastMatchByKey(_, _, _)
LastMatchByKey(v, key, name) ==
    IF v = <<>> THEN None
    ELSE LET t == v[Len(v)]
         IN IF t.tournament_key = key
            THEN Some(t)
            ELSE LastMatchByKey(SubSeq(v, 1, Len(v) - 1), key, name)

RECURSIVE LastMatch(_, _, _)
LastMatch(v, key, name) ==
    IF v = <<>> THEN None
    ELSE LET t == v[Len(v)]
         IN IF t.tournament_key = key \/ t.name = name
            THEN Some(t)
            ELSE LastMatch(SubSeq(v, 1, Len(v) - 1), key, name)

get_tournament_by_key_or_name(tournament_key, tournament_name) ==
    LastMatch(tournaments, tournament_key, tournament_name)

check_supported_country(country_code) ==
    \E i \in 1..Len(supported_countries) : supported_countries[i] = country_code

get_position_prizes ==
    LET percentage_to_pay == 10000 - percentage_stake_commission
    IN << (5 * percentage_to_pay) \div 10,
          (34 * percentage_to_pay) \div 100,
          (16 * percentage_to_pay) \div 100 >>

\* line 474 is a u64 subtraction: with a commission above 10000 it has no
\* u64 result, and the call panics ("attempt to subtract with overflow",
\* overflow checks on) or goes on with 2^64 + 10000 - commission (checks off)
percentage_to_pay_underflows == percentage_stake_commission > 10000

\* the messages of the panics that are not require! or env::panic_str
UNWRAP_NONE == "called Option::unwrap() on a None value"
DIVIDE_BY_ZERO == "attempt to divide by zero"
INDEX_OUT_OF_BOUNDS == "index out of bounds"

\* ------------------------------------------------------------------- init
Init ==
    /\ owner = OWNER
    /\ pending_owner = CONTRACT
    /\ min_tournament_players = 4
    /\ percentage_stake_commission = 1001
    /\ game_types = <<[identifier |-> "chain", max_score |-> 2]>>
    /\ supported_countries = <<"NGA">>
    /\ tournaments = <<>>
    /\ stakes = {}
    /\ stakes_g = <<>>
    /\ stake_payouts = <<>>
    /\ block_timestamp_ms = 0
    /\ receipts = <<>>
    /\ last_call = "new"

\* ------------------------------------------------------------ ft_on_transfer
ft_on_transfer(predecessor, sender_id, amount) ==
    LET stake_balance == IF predecessor \in DOMAIN stakes_g
                         THEN stakes_g[predecessor] ELSE 0
    IN /\ stakes_g' = MapInsert(stakes_g, predecessor, stake_balance + amount)
       /\ stakes' = stakes \cup {sender_id}
       /\ last_call' = "ft_on_transfer"
       /\ UNCHANGED <<owner, pending_owner, min_tournament_players,
                      percentage_stake_commission, game_types, supported_countries,
                      tournaments, stake_payouts, receipts, block_timestamp_ms>>

\* --------------------------------------------------------- create_tournament
\* mutant of InitialPlayers: the platform owner is enrolled too
InitialPlayersAnyCaller(caller, minimum_stake) ==
    << [id |-> 1, account_id |-> caller, stake_amount |-> minimum_stake,
        score |-> 0, number_of_games_played |-> 0] >>

\* the player list a new tournament starts with (lines 160-171)
InitialPlayers(caller, minimum_stake) ==
    IF caller # owner
    THEN << [id |-> 1, account_id |-> caller, stake_amount |-> minimum_stake,
             score |-> 0, number_of_games_played |-> 0] >>
    ELSE <<>>

\* mutant of ConsumeStake: the cell is not reset
ConsumeNothing(cells, ft_address) == cells

\* stakes.insert(&tournament.ft_address, &0) on the caller's inner map
ConsumeStake(cells, ft_address) == MapInsert(cells, ft_address, 0)

\* lines 139-156: the panic of the first check that fails
create_tournament_panic(caller, name, tournament_key, game_type_id, form, minimum_stake, ft_address, country) ==
    LET stakings == StakesGet(caller)
        ft_stake == MapGet(stakings[1], ft_address)
    IN IF form = COUNTRY_BASED /\ country = None
       THEN "Country based tournament requires a country to be passed"
       ELSE IF form = COUNTRY_BASED /\ ~check_supported_country(unwrap_or_default(country))
       THEN "Country code entered is not supported"
       ELSE IF get_tournament_by_key_or_name(tournament_key, name) # None
       THEN "Tournament with provided key or name already exists"
       ELSE IF Len(get_gametypes(game_type_id)) = 0
       THEN "No tournament with provided game type"
       ELSE IF stakings = None
       THEN UNWRAP_NONE
       ELSE IF ft_stake = None
       THEN "No stake made"
       ELSE IF ft_stake[1] < minimum_stake
       THEN "You must have staked at least the minimum stake before creating tournament"
       ELSE ""

create_tournament(caller, name, tournament_key, game_type_id, form, interval, minimum_stake, ft_address, country) ==
    LET stakings == StakesGet(caller)
        tournament ==
            [id |-> Len(tournaments) + 1,
             name |-> name,
             tournament_key |-> tournament_key,
             game_type_id |-> game_type_id,
             owner |-> caller,
             minimum_stake |-> minimum_stake,
             total_stake |-> 0,
             country |-> unwrap_or_default(country),
             ft_address |-> ft_address,
             tournament_deadline |-> block_timestamp_ms + (interval * DAY_TO_MS),
             tournament_type |-> form,
             status |-> PENDING_VOLUME,
             players |-> InitialPlayers(caller, minimum_stake)]
    IN /\ create_tournament_panic(caller, name, tournament_key, game_type_id, form,
                                  minimum_stake, ft_address, country) = ""
       /\ tournaments' = Append(tournaments, tournament)
       /\ stakes_g' = ConsumeStake(stakings[1], tournament.ft_address)
       /\ stakes' = stakes \cup {caller}
       /\ last_call' = "create_tournament"
       /\ UNCHANGED <<owner, pending_owner, min_tournament_players,
                      percentage_stake_commission, game_types,
                      supported_countries, stake_payouts, receipts,
                      block_timestamp_ms>>

\* ----------------------------------------------------------- join_tournament
\* mutant of JoinAdmission: no deadline check
JoinAdmissionNoDeadline(tournament, caller, country, tournament_key) ==
    IF tournament.owner = caller
    THEN "Tournament owner can not join the tournament"
    ELSE IF tournament.tournament_type = PRIVATE
            /\ tournament.tournament_key # unwrap_or_default(tournament_key)
    THEN "Invalid tournament key provided for a private tournament"
    ELSE IF tournament.tournament_type = COUNTRY_BASED /\ tournament.country # country
    THEN "Invalid country"
    ELSE ""

\* mutant of JoinAdmission: the key of a PRIVATE tournament is not compared
JoinAdmissionAnyKey(tournament, caller, country, tournament_key) ==
    IF tournament.owner = caller
    THEN "Tournament owner can not join the tournament"
    ELSE IF ~(tournament.tournament_deadline > block_timestamp_ms)
    THEN "Tournament exceeded the deadline"
    ELSE IF tournament.tournament_type = COUNTRY_BASED /\ tournament.country # country
    THEN "Invalid country"
    ELSE ""

\* the require! checks of lines 211-222, in order: the message of the first
\* that fails, "" when all pass
JoinAdmission(tournament, caller, country, tournament_key) ==
    IF tournament.owner = caller
    THEN "Tournament owner can not join the tournament"
    ELSE IF ~(tournament.tournament_deadline > block_timestamp_ms)
    THEN "Tournament exceeded the deadline"
    ELSE IF tournament.tournament_type = PRIVATE
            /\ tournament.tournament_key # unwrap_or_default(tournament_key)
    THEN "Invalid tournament key provided for a private tournament"
    ELSE IF tournament.tournament_type = COUNTRY_BASED /\ tournament.country # country
    THEN "Invalid country"
    ELSE ""

\* mutant of JoinedPlayer: the id is the count before the push
JoinedPlayerZeroBased(tournament, caller, ft_stake) ==
    [id |-> Len(tournament.players),
     account_id |-> caller,
     stake_amount |-> ft_stake,
     score |-> 0,
     number_of_games_played |-> 0]

\* the entry pushed at lines 232-243
JoinedPlayer(tournament, caller, ft_stake) ==
    [id |-> Len(tournament.players) + 1,
     account_id |-> caller,
     stake_amount |-> ft_stake,
     score |-> 0,
     number_of_games_played |-> 0]

\* mutant of JoinedStatus: the status is recomputed from the count
JoinedStatusResets(tournament, number_of_players) ==
    IF number_of_players >= min_tournament_players THEN ACTIVE ELSE PENDING_VOLUME

\* mutant of JoinedStatus: the quorum has to be exceeded
JoinedStatusLate(tournament, number_of_players) ==
    IF number_of_players > min_tournament_players THEN ACTIVE ELSE tournament.status

\* lines 245-247
JoinedStatus(tournament, number_of_players) ==
    IF number_of_players >= min_tournament_players THEN ACTIVE ELSE tournament.status

\* lines 210-231: the panic of the first check that fails
join_tournament_panic(caller, tournament_id, country, tournament_key) ==
    LET found == VectorGet(tournaments, tournament_id)
        tournament == found[1]
        admission == JoinAdmission(tournament, caller, country, tournament_key)
        stakings == StakesGet(caller)
        ft_stake == MapGet(stakings[1], tournament.ft_address)
    IN IF found = None
       THEN "Tournament with provided ID does not exist"
       ELSE IF admission # ""
       THEN admission
       ELSE IF stakings = None
       THEN UNWRAP_NONE
       ELSE IF ft_stake = None
       THEN "No stake made"
       ELSE IF ft_stake[1] < tournament.minimum_stake
       THEN "You must have staked at least the minimum stake before creating tournament"
       ELSE ""

join_tournament(caller, tournament_id, country, tournament_key) ==
    LET tournament == VectorGet(tournaments, tournament_id)[1]
        stakings == StakesGet(caller)
        ft_stake == MapGet(stakings[1], tournament.ft_address)[1]
        number_of_players == Len(tournament.players) + 1
        joined == [tournament EXCEPT
                     !.players = Append(@, JoinedPlayer(tournament, caller, ft_stake)),
                     !.status = JoinedStatus(tournament, number_of_players)]
    IN /\ join_tournament_panic(caller, tournament_id, country, tournament_key) = ""
       /\ tournaments' = VectorReplace(tournaments, tournament_id, joined)
       /\ stakes_g' = ConsumeStake(stakings[1], tournament.ft_address)
       /\ stakes' = stakes \cup {caller}
       /\ last_call' = "join_tournament"
       /\ UNCHANGED <<owner, pending_owner, min_tournament_players,
                      percentage_stake_commission, game_types,
                      supported_countries, stake_payouts, receipts,
                      block_timestamp_ms>>

\* ------------------------------------------------------------- publish_score
\* lines 272-277: the loop runs over tournament.players.clone() and its
\* closure takes each element by value, so the additions land in temporaries;
\* tournament.players itself is what line 280 stores
PublishedPlayers(players, caller, score) == players

\* lines 265-270: the panic of the first check that fails
publish_score_panic(caller, tournament_id, score) ==
    LET found == VectorGet(tournaments, tournament_id)
        tournament == found[1]
        gametype == get_gametypes(tournament.game_type_id)
    IN IF found = None
       THEN "Tournament with provided ID does not exist"
       ELSE IF ~(tournament.tournament_deadline > block_timestamp_ms)
       THEN "Tournament exceeded deadline"
       ELSE IF tournament.status # ACTIVE
       THEN "Tournament can not be joined at this time"
       ELSE IF Len(gametype) = 0
       THEN INDEX_OUT_OF_BOUNDS
       ELSE IF ~(score <= gametype[1].max_score)
       THEN "Score exceeds threshold for game"
       ELSE ""

publish_score(caller, tournament_id, score) ==
    LET tournament == VectorGet(tournaments, tournament_id)[1]
        published == [tournament EXCEPT
                        !.players = PublishedPlayers(@, caller, score)]
    IN /\ publish_score_panic(caller, tournament_id, score) = ""
       /\ tournaments' = VectorReplace(tournaments, tournament_id, published)
       /\ last_call' = "publish_score"
       /\ UNCHANGED <<owner, pending_owner, min_tournament_players,
                      percentage_stake_commission, game_types,
                      supported_countries, stakes, stakes_g, stake_payouts,
                      receipts, block_timestamp_ms>>

\* -------------------------------------------------------- distribute_rewards
\* mutant of DistributeGuard: any account may settle
DistributeGuardAnyCaller(tournament, caller) ==
    IF ~(tournament.tournament_deadline <= block_timestamp_ms)
    THEN "Tournament owner can not join the tournament"
    ELSE IF ~(tournament.status # CLOSED)
    THEN "Tournament is already closed"
    ELSE ""

\* the require! checks of lines 289-291, in order
DistributeGuard(tournament, caller) ==
    IF owner # caller
    THEN "Unauthorized"
    ELSE IF ~(tournament.tournament_deadline <= block_timestamp_ms)
    THEN "Tournament owner can not join the tournament"
    ELSE IF ~(tournament.status # CLOSED)
    THEN "Tournament is already closed"
    ELSE ""

\* the balance the contract reads for an account and a token (lines 150-152,
\* 224-227): None when the account has no inner map or the map no such cell
StakeIn(registered, cells, account, token) ==
    IF account \in registered THEN MapGet(cells, token) ELSE None

\* a scheduled ext_token_contract::ext(ft_address).ft_transfer(to, amount, None);
\* tournament_id is the argument of the call that scheduled it
Transfer(ft_address, to, amount, tournament_id) ==
    [receiver_id |-> ft_address, to |-> to, amount |-> amount,
     tournament_id |-> tournament_id]

\* mutant of Refunds: the minimum stake is refunded, not the stake recorded
RECURSIVE RefundsOfMinimum(_, _, _)
RefundsOfMinimum(players, tournament, tournament_id) ==
    IF players = <<>> THEN <<>>
    ELSE LET player == Head(players)
             rest == RefundsOfMinimum(Tail(players), tournament, tournament_id)
         IN IF player.account_id # tournament.owner
            THEN <<Transfer(tournament.ft_address, player.account_id,
                            tournament.minimum_stake, tournament_id)>> \o rest
            ELSE rest

\* lines 297-306: one ft_transfer per player that is not the tournament's owner
RECURSIVE Refunds(_, _, _)
Refunds(players, tournament, tournament_id) ==
    IF players = <<>> THEN <<>>
    ELSE LET player == Head(players)
             rest == Refunds(Tail(players), tournament, tournament_id)
         IN IF player.account_id # tournament.owner
            THEN <<Transfer(tournament.ft_address, player.account_id,
                            player.stake_amount, tournament_id)>> \o rest
            ELSE rest

\* mutant of OwnerStakes: the stake of every player is added
RECURSIVE OwnerStakesOfAll(_, _)
OwnerStakesOfAll(players, tournament) ==
    IF players = <<>> THEN 0
    ELSE Head(players).stake_amount + OwnerStakesOfAll(Tail(players), tournament)

\* lines 307-311: what the players that are the tournament's owner add to
\* stake_payout_for_ft
RECURSIVE OwnerStakes(_, _)
OwnerStakes(players, tournament) ==
    IF players = <<>> THEN 0
    ELSE (IF Head(players).account_id = tournament.owner
          THEN Head(players).stake_amount ELSE 0)
         + OwnerStakes(Tail(players), tournament)

\* the key of the comparator of line 327, for a player that has played
Average(player) == (player.score * 1000) \div player.number_of_games_played

\* sort_by is stable: an element goes behind those that do not compare greater
RECURSIVE InsertByAverage(_, _)
InsertByAverage(sorted, player) ==
    IF sorted = <<>> THEN <<player>>
    ELSE IF Average(player) > Average(Head(sorted))
         THEN <<player>> \o sorted
         ELSE <<Head(sorted)>> \o InsertByAverage(Tail(sorted), player)

RECURSIVE SortByAverage(_)
SortByAverage(players) ==
    IF players = <<>> THEN <<>>
    ELSE InsertByAverage(SortByAverage(SubSeq(players, 1, Len(players) - 1)),
                         players[Len(players)])

\* the comparator runs on every element once there are two of them, and
\* divides by number_of_games_played
SortPanics(players) ==
    /\ Len(players) >= 2
    /\ \E i \in 1..Len(players) : players[i].number_of_games_played = 0

\* lines 331-340: prizes[i] and players[i] for i in 1..prizes.len(), 0-based
Prizes(players, prizes, pay_value, tournament, tournament_id) ==
    [k \in 1..(Len(prizes) - 1) |->
        Transfer(tournament.ft_address, players[k + 1].account_id,
                 prizes[k + 1] * pay_value, tournament_id)]

\* lines 288-340: the panic of the first check or operation that fails
distribute_rewards_panic(caller, tournament_id) ==
    LET found == VectorGet(tournaments, tournament_id)
        tournament == found[1]
        guard == DistributeGuard(tournament, caller)
    IN IF found = None
       THEN "Tournament with provided ID does not exist"
       ELSE IF guard # ""
       THEN guard
       ELSE IF tournament.status \in {PENDING_VOLUME, DELETED}
       THEN ""
       ELSE IF SortPanics(tournament.players)
       THEN DIVIDE_BY_ZERO
       ELSE IF Len(tournament.players) < Len(get_position_prizes)
       THEN INDEX_OUT_OF_BOUNDS
       ELSE ""

distribute_rewards(caller, tournament_id) ==
    LET tournament == VectorGet(tournaments, tournament_id)[1]
        stake_payout_for_ft == IF tournament.ft_address \in DOMAIN stake_payouts
                               THEN stake_payouts[tournament.ft_address] ELSE 0
        closed == [tournament EXCEPT !.status = CLOSED]
        commission == (percentage_stake_commission * tournament.total_stake) \div 10000
        pay_value == tournament.total_stake - commission
        players == SortByAverage(tournament.players)
        prizes == get_position_prizes
    IN /\ distribute_rewards_panic(caller, tournament_id) = ""
       /\ last_call' = "distribute_rewards"
       /\ UNCHANGED <<owner, pending_owner, min_tournament_players,
                      percentage_stake_commission, game_types,
                      supported_countries, stakes, stakes_g, block_timestamp_ms>>
       /\ IF tournament.status = PENDING_VOLUME
          THEN /\ receipts' = receipts \o Refunds(tournament.players, tournament,
                                                  tournament_id)
               /\ stake_payouts' =
                    IF \E i \in 1..Len(tournament.players) :
                           tournament.players[i].account_id = tournament.owner
                    THEN MapInsert(stake_payouts, tournament.ft_address,
                                   stake_payout_for_ft
                                     + OwnerStakes(tournament.players, tournament))
                    ELSE stake_payouts
               /\ tournaments' = VectorReplace(tournaments, tournament_id, closed)
          ELSE IF tournament.status = DELETED
          THEN UNCHANGED <<receipts, stake_payouts, tournaments>>
          ELSE /\ stake_payouts' = MapInsert(stake_payouts, tournament.ft_address,
                                             stake_payout_for_ft + commission)
               /\ receipts' = receipts \o Prizes(players, prizes, pay_value,
                                                 tournament, tournament_id)
               /\ tournaments' = VectorReplace(tournaments, tournament_id, closed)

\* ----------------------------------------------------------- administration
set_min_players_panic(caller, num) ==
    IF owner # caller
    THEN "Unauthorized"
    ELSE IF ~(num > 3)
    THEN "Minimum number of players must be greater then 3"
    ELSE ""

set_min_players(caller, num) ==
    /\ set_min_players_panic(caller, num) = ""
    /\ min_tournament_players' = num
    /\ last_call' = "set_min_players"
    /\ UNCHANGED <<owner, pending_owner, percentage_stake_commission,
                   game_types, supported_countries, tournaments, stakes,
                   stakes_g, stake_payouts, receipts, block_timestamp_ms>>

\* env::block_timestamp_ms() of a later block
Tick ==
    /\ block_timestamp_ms < MaxDays * DAY_TO_MS
    /\ block_timestamp_ms' = block_timestamp_ms + DAY_TO_MS
    /\ UNCHANGED <<contract, receipts, last_call>>

Next ==
    \/ \E t \in Tokens, a \in Accounts, n \in Amounts :
          /\ (IF t \in DOMAIN stakes_g THEN stakes_g[t] ELSE 0) + n <= MaxBalance
          /\ ft_on_transfer(t, a, n)
    \/ \E a \in Creators, n \in Names, k \in Keys, g \in GameTypeIds,
          f \in TournamentType, i \in Intervals, m \in MinimumStakes,
          t \in CreateTokens, c \in {None} \cup {Some(x) : x \in Countries} :
          /\ Len(tournaments) < MaxTournaments
          /\ f = COUNTRY_BASED \/ c = None
          /\ create_tournament(a, n, k, g, f, i, m, t, c)
    \/ \E a \in Accounts, id \in 0..MaxTournaments, c \in Countries,
          k \in {None} \cup {Some(x) : x \in JoinKeys} :
          /\ \A j \in 1..Len(tournaments) : Len(tournaments[j].players) < MaxPlayers
          /\ join_tournament(a, id, c, k)
    \/ \E a \in Accounts, id \in 0..MaxTournaments, s \in Scores :
          publish_score(a, id, s)
    \/ \E a \in Accounts, id \in 0..MaxTournaments :
          distribute_rewards(a, id)
    \/ \E a \in Accounts, n \in MinPlayersArgs :
          set_min_players(a, n)
    \/ Tick

Spec == Init /\ [][Next]_vars

\* ------------------------------------------------- ownership and parameters
\* lines 104-106; the country list given is "NGA"
new_panic(percentage_stake_commission_arg, min_tournament_players_arg) ==
    IF ~(min_tournament_players_arg > 3)
    THEN "Minimum number of players must be greater then 3"
    ELSE IF ~(percentage_stake_commission_arg > 1000)
    THEN "Commission must be at least 10 percent"
    ELSE ""

\* the contract as new leaves it, for every pair of arguments it accepts
InitAdmin ==
    \E c \in CommissionArgs, n \in MinPlayersArgs :
        /\ new_panic(c, n) = ""
        /\ owner = OWNER
        /\ pending_owner = CONTRACT
        /\ min_tournament_players = n
        /\ percentage_stake_commission = c
        /\ game_types = <<>>
        /\ supported_countries = <<"NGA">>
        /\ tournaments = <<>>
        /\ stakes = {}
        /\ stakes_g = <<>>
        /\ stake_payouts = <<>>
        /\ block_timestamp_ms = 0
        /\ receipts = <<>>
        /\ last_call = "new"

transfer_ownership_panic(caller, new_owner) ==
    IF owner # caller THEN "Unauthorized" ELSE ""

transfer_ownership(caller, new_owner) ==
    /\ transfer_ownership_panic(caller, new_owner) = ""
    /\ pending_owner' = new_owner
    /\ last_call' = "transfer_ownership"
    /\ UNCHANGED <<owner, min_tournament_players, percentage_stake_commission,
                   game_types, supported_countries, tournaments, stakes,
                   stakes_g, stake_payouts, receipts, block_timestamp_ms>>

accept_ownership_panic(caller) ==
    IF pending_owner # caller THEN "Unauthorized" ELSE ""

accept_ownership(caller) ==
    /\ accept_ownership_panic(caller) = ""
    /\ owner' = caller
    /\ pending_owner' = CONTRACT
    /\ last_call' = "accept_ownership"
    /\ UNCHANGED <<min_tournament_players, percentage_stake_commission,
                   game_types, supported_countries, tournaments, stakes,
                   stakes_g, stake_payouts, receipts, block_timestamp_ms>>

set_percentage_stake_commission_panic(caller, new_value) ==
    IF owner # caller
    THEN "Unauthorized"
    ELSE IF ~(new_value >= 1000)
    THEN "Commission must be at least 10 percent"
    ELSE ""

set_percentage_stake_commission(caller, new_value) ==
    /\ set_percentage_stake_commission_panic(caller, new_value) = ""
    /\ percentage_stake_commission' = new_value
    /\ last_call' = "set_percentage_stake_commission"
    /\ UNCHANGED <<owner, pending_owner, min_tournament_players,
                   game_types, supported_countries, tournaments, stakes,
                   stakes_g, stake_payouts, receipts, block_timestamp_ms>>

NextAdmin ==
    \/ \E a \in AdminCallers, n \in NewOwners : transfer_ownership(a, n)
    \/ \E a \in AdminCallers : accept_ownership(a)
    \/ \E a \in AdminCallers, c \in CommissionArgs :
          set_percentage_stake_commission(a, c)
    \/ \E a \in AdminCallers, n \in MinPlayersArgs : set_min_players(a, n)

SpecAdmin == InitAdmin /\ [][NextAdmin]_vars

\* ------------------------------------------------------------ withdraw_value
withdraw_value_panic(caller, to, ft_address, amount) ==
    LET payout == unwrap_or_zero(MapGet(stake_payouts, ft_address))
    IN IF owner # caller
       THEN "Unauthorized"
       ELSE IF amount # None /\ payout < amount[1]
       THEN "Confirm correct token address or withdraw amount below threshold"
       ELSE ""

\* lines 372-406: the transfer is scheduled and the remaining balance is
\* returned; self.stake_payouts is read (line 375) and never written
withdraw_value(caller, to, ft_address, amount) ==
    LET payout == unwrap_or_zero(MapGet(stake_payouts, ft_address))
        sent == IF amount = None THEN payout ELSE amount[1]
    IN /\ withdraw_value_panic(caller, to, ft_address, amount) = ""
       /\ receipts' = Append(receipts, Transfer(ft_address, to, sent, NO_TOURNAMENT))
       /\ last_call' = "withdraw_value"
       /\ UNCHANGED <<contract, block_timestamp_ms>>

\* deposits, create_tournament, join_tournament and distribute_rewards with
\* the arguments of Next, and up to MaxWithdrawals withdraw_value calls
NextWithdraw ==
    \/ \E t \in CreateTokens, a \in Accounts, n \in Amounts :
          /\ (IF t \in DOMAIN stakes_g THEN stakes_g[t] ELSE 0) + n <= MaxBalance
          /\ ft_on_transfer(t, a, n)
    \/ \E a \in Creators, n \in Names, k \in Keys, g \in GameTypeIds,
          f \in TournamentType, i \in Intervals, m \in MinimumStakes,
          t \in CreateTokens, c \in {None} \cup {Some(x) : x \in Countries} :
          /\ Len(tournaments) < MaxTournaments
          /\ f = COUNTRY_BASED \/ c = None
          /\ create_tournament(a, n, k, g, f, i, m, t, c)
    \/ \E a \in Accounts, id \in 0..MaxTournaments, c \in Countries,
          k \in {None} \cup {Some(x) : x \in JoinKeys} :
          /\ \A j \in 1..Len(tournaments) : Len(tournaments[j].players) < MaxWidePlayers
          /\ join_tournament(a, id, c, k)
    \/ \E a \in Accounts, id \in 0..MaxTournaments :
          distribute_rewards(a, id)
    \/ \E a \in Accounts, x \in CreateTokens,
          amt \in {None} \cup {Some(n) : n \in WithdrawAmounts} :
          /\ Len(SelectSeq(receipts, LAMBDA r : r.tournament_id = NO_TOURNAMENT))
                < MaxWithdrawals
          /\ withdraw_value(a, OWNER, x, amt)
    \/ Tick

SpecWithdraw == Init /\ [][NextWithdraw]_vars

\* ------------------------------------------------------- several tournaments
\* deposits, create_tournament with two names and two keys, join_tournament
\* and distribute_rewards on up to MaxWide tournaments
NextWide ==
    \/ \E t \in CreateTokens, a \in Accounts, n \in Amounts :
          /\ (IF t \in DOMAIN stakes_g THEN stakes_g[t] ELSE 0) + n <= MaxBalance
          /\ ft_on_transfer(t, a, n)
    \/ \E a \in Creators, n \in WideNames, k \in WideKeys, g \in GameTypeIds,
          f \in {PUBLIC, PRIVATE}, i \in Intervals, m \in WideMinimumStakes,
          t \in CreateTokens :
          /\ Len(tournaments) < MaxWide
          /\ create_tournament(a, n, k, g, f, i, m, t, None)
    \/ \E a \in Accounts, id \in 0..MaxWide, c \in Countries,
          k \in {None} \cup {Some(x) : x \in JoinKeys} :
          /\ \A j \in 1..Len(tournaments) : Len(tournaments[j].players) < MaxWidePlayers
          /\ join_tournament(a, id, c, k)
    \/ \E a \in Accounts, id \in 0..MaxWide :
          distribute_rewards(a, id)
    \/ Tick

SpecWide == Init /\ [][NextWide]_vars

\* ----------------------------------------------------------- calls that panic
\* mutant of Discard: the writes made before the panic are kept
DiscardNothing(persisted, written) == written

\* a method of the #[near_bindgen] impl that panics aborts its receipt: the
\* runtime commits none of the writes and dispatches none of the promises the
\* call has made up to the panic
Discard(persisted, written) == persisted

\* lines 139-156: every check of create_tournament precedes its first write
\* (line 193)
create_tournament_panics(caller, name, tournament_key, game_type_id, form, minimum_stake, ft_address, country) ==
    /\ create_tournament_panic(caller, name, tournament_key, game_type_id, form,
                               minimum_stake, ft_address, country) # ""
    /\ last_call' = "create_tournament panicked"
    /\ UNCHANGED <<contract, receipts, block_timestamp_ms>>

\* lines 210-231: every check of join_tournament precedes its first write
\* (line 249)
join_tournament_panics(caller, tournament_id, country, tournament_key) ==
    /\ join_tournament_panic(caller, tournament_id, country, tournament_key) # ""
    /\ last_call' = "join_tournament panicked"
    /\ UNCHANGED <<contract, receipts, block_timestamp_ms>>

\* lines 263-270: every check of publish_score precedes its write (line 280)
publish_score_panics(caller, tournament_id, score) ==
    /\ publish_score_panic(caller, tournament_id, score) # ""
    /\ last_call' = "publish_score panicked"
    /\ UNCHANGED <<contract, receipts, block_timestamp_ms>>

\* the transfers the prize loop of lines 331-340 has scheduled when
\* players[i] is out of bounds
PrizesBeforePanic(players, prizes, pay_value, tournament, tournament_id) ==
    [k \in 1..(IF Len(players) = 0 THEN 0 ELSE Len(players) - 1) |->
        Transfer(tournament.ft_address, players[k + 1].account_id,
                 prizes[k + 1] * pay_value, tournament_id)]

\* distribute_rewards on an ACTIVE tournament writes stake_payouts (line 322)
\* before the sort of line 327 and the prize loop of lines 331-340, either
\* of which can panic
distribute_rewards_panics(caller, tournament_id) ==
    LET panic == distribute_rewards_panic(caller, tournament_id)
        tournament == VectorGet(tournaments, tournament_id)[1]
        stake_payout_for_ft == IF tournament.ft_address \in DOMAIN stake_payouts
                               THEN stake_payouts[tournament.ft_address] ELSE 0
        commission == (percentage_stake_commission * tournament.total_stake) \div 10000
        pay_value == tournament.total_stake - commission
        late == panic \in {DIVIDE_BY_ZERO, INDEX_OUT_OF_BOUNDS}
        written_payouts == IF late
                           THEN MapInsert(stake_payouts, tournament.ft_address,
                                          stake_payout_for_ft + commission)
                           ELSE stake_payouts
        written_receipts == IF panic = INDEX_OUT_OF_BOUNDS
                            THEN receipts \o PrizesBeforePanic(tournament.players,
                                     get_position_prizes, pay_value, tournament,
                                     tournament_id)
                            ELSE receipts
    IN /\ panic # ""
       /\ stake_payouts' = Discard(stake_payouts, written_payouts)
       /\ receipts' = Discard(receipts, written_receipts)
       /\ last_call' = "distribute_rewards panicked"
       /\ UNCHANGED <<owner, pending_owner, min_tournament_players,
                      percentage_stake_commission, game_types,
                      supported_countries, tournaments, stakes, stakes_g,
                      block_timestamp_ms>>

\* mutant of TransferOutcome: a failed transfer is credited back to the escrow
TransferOutcomeRecredits(cells, receipt, ok) ==
    IF ok THEN cells
    ELSE MapInsert(cells, receipt.receiver_id,
                   (IF receipt.receiver_id \in DOMAIN cells
                    THEN cells[receipt.receiver_id] ELSE 0) + receipt.amount)

\* what the contract does when a scheduled ft_transfer has run on the token
\* contract: the promise of lines 300-305 and 334-339 is created and dropped,
\* no callback is attached to it (no .then), so no code of the contract runs
\* on either outcome
TransferOutcome(cells, receipt, ok) == cells

\* the token contract has executed the i-th scheduled transfer, or has
\* panicked executing it
ft_transfer_outcome(i, ok) ==
    /\ i \in 1..Len(receipts)
    /\ stakes_g' = TransferOutcome(stakes_g, receipts[i], ok)
    /\ last_call' = IF ok THEN "ft_transfer succeeded" ELSE "ft_transfer failed"
    /\ UNCHANGED <<owner, pending_owner, min_tournament_players,
                   percentage_stake_commission, game_types,
                   supported_countries, tournaments, stakes, stake_payouts,
                   receipts, block_timestamp_ms>>

\* deposits of the one token tournaments are created with, the four
\* tournament methods with the arguments of Next, the calls of these
\* methods that panic, and the outcomes of the scheduled transfers
NextOutcomes ==
    \/ \E i \in 1..MaxPlayers, ok \in BOOLEAN : ft_transfer_outcome(i, ok)
    \/ \E t \in CreateTokens, a \in Accounts, n \in Amounts :
          /\ (IF t \in DOMAIN stakes_g THEN stakes_g[t] ELSE 0) + n <= MaxBalance
          /\ ft_on_transfer(t, a, n)
    \/ \E a \in Creators, n \in Names, k \in Keys, g \in GameTypeIds,
          f \in TournamentType, i \in Intervals, m \in MinimumStakes,
          t \in CreateTokens, c \in {None} \cup {Some(x) : x \in Countries} :
          /\ Len(tournaments) < MaxTournaments
          /\ f = COUNTRY_BASED \/ c = None
          /\ create_tournament(a, n, k, g, f, i, m, t, c)
    \/ \E a \in Accounts, id \in 0..MaxTournaments, c \in Countries,
          k \in {None} \cup {Some(x) : x \in JoinKeys} :
          /\ \A j \in 1..Len(tournaments) : Len(tournaments[j].players) < MaxPlayers
          /\ join_tournament(a, id, c, k)
    \/ \E a \in Accounts, id \in 0..MaxTournaments, s \in Scores :
          publish_score(a, id, s)
    \/ \E a \in Accounts, id \in 0..MaxTournaments :
          distribute_rewards(a, id)
    \/ Tick
    \/ \E a \in Creators, n \in Names, k \in Keys, g \in GameTypeIds,
          f \in TournamentType, m \in MinimumStakes, t \in CreateTokens,
          c \in {None} \cup {Some(x) : x \in Countries} :
          create_tournament_panics(a, n, k, g, f, m, t, c)
    \/ \E a \in Accounts, id \in 0..MaxTournaments, c \in Countries,
          k \in {None} \cup {Some(x) : x \in JoinKeys} :
          join_tournament_panics(a, id, c, k)
    \/ \E a \in Accounts, id \in 0..MaxTournaments, s \in Scores :
          publish_score_panics(a, id, s)
    \/ \E a \in Accounts, id \in 0..MaxTournaments :
          distribute_rewards_panics(a, id)

SpecOutcomes == Init /\ [][NextOutcomes]_vars

\* ------------------------------------------------- the contract as deployed
\* a create_tournament call: it returns, or it panics
create_tournament_call(caller, name, tournament_key, game_type_id, form, interval, minimum_stake, ft_address, country) ==
    IF create_tournament_panic(caller, name, tournament_key, game_type_id, form,
                               minimum_stake, ft_address, country) = ""
    THEN create_tournament(caller, name, tournament_key, game_type_id, form,
                           interval, minimum_stake, ft_address, country)
    ELSE create_tournament_panics(caller, name, tournament_key, game_type_id, form,
                                  minimum_stake, ft_address, country)

\* every public method, on the contract as new leaves it (game_types empty)
NextDeployed ==
    \/ \E t \in CreateTokens, a \in Accounts, n \in Amounts :
          /\ (IF t \in DOMAIN stakes_g THEN stakes_g[t] ELSE 0) + n <= MaxBalance
          /\ ft_on_transfer(t, a, n)
    \/ \E a \in Creators, n \in Names, k \in Keys, g \in GameTypeIds,
          f \in TournamentType, i \in Intervals, m \in MinimumStakes,
          t \in CreateTokens, c \in {None} \cup {Some(x) : x \in Countries} :
          /\ Len(tournaments) < MaxTournaments
          /\ create_tournament_call(a, n, k, g, f, i, m, t, c)
    \/ \E a \in Accounts, id \in 0..MaxTournaments, c \in Countries,
          k \in {None} \cup {Some(x) : x \in JoinKeys} :
          join_tournament_panics(a, id, c, k)
    \/ \E a \in Accounts, id \in 0..MaxTournaments, s \in Scores :
          publish_score_panics(a, id, s)
    \/ \E a \in Accounts, id \in 0..MaxTournaments :
          distribute_rewards_panics(a, id)
    \/ \E a \in AdminCallers, n \in NewOwners : transfer_ownership(a, n)
    \/ \E a \in AdminCallers : accept_ownership(a)
    \/ \E a \in AdminCallers, c \in CommissionArgs :
          set_percentage_stake_commission(a, c)
    \/ \E a \in AdminCallers, n \in MinPlayersArgs : set_min_players(a, n)
    \/ \E a \in AdminCallers, x \in CreateTokens,
          amt \in {None} \cup {Some(n) : n \in WithdrawAmounts} :
          /\ Len(receipts) < MaxWithdrawals
          /\ withdraw_value(a, OWNER, x, amt)
    \/ Tick

SpecDeployed == InitAdmin /\ [][NextDeployed]_vars

\* =================================================================== claims
TournamentIds == 0..MaxTournaments
OptionalKeys == {None} \cup {Some(x) : x \in JoinKeys}

\* the transfers scheduled by the distribute_rewards calls for one tournament
ReceiptsOf(rs, tournament_id) ==
    SelectSeq(rs, LAMBDA r : r.tournament_id = tournament_id)

\* C1: over any step, the status of a stored tournament stays as it is or
\* moves PENDING_VOLUME -> ACTIVE, PENDING_VOLUME -> CLOSED or
\* ACTIVE -> CLOSED; no tournament is dropped, and none is ever DELETED.
C1_StatusMovesForward ==
    [][/\ Len(tournaments') >= Len(tournaments)
       /\ \A i \in 1..Len(tournaments) :
             \/ tournaments'[i].status = tournaments[i].status
             \/ <<tournaments[i].status, tournaments'[i].status>> \in
                   { <<PENDING_VOLUME, ACTIVE>>, <<PENDING_VOLUME, CLOSED>>,
                     <<ACTIVE, CLOSED>> }
       /\ \A i \in 1..Len(tournaments') : tournaments'[i].status # DELETED]_vars

\* a tournament that was joined and then closed
C1_Witness ==
    \E i \in 1..Len(tournaments) :
        /\ tournaments[i].status = CLOSED
        /\ Len(tournaments[i].players) >= 2

\* C2: a CLOSED tournament is never changed again, no further transfer is
\* scheduled for it, and every join_tournament, publish_score and
\* distribute_rewards call that resolves to it panics.
C2_ClosedIsTerminal ==
    [][\A i \in 1..Len(tournaments) :
          tournaments[i].status = CLOSED =>
             /\ Len(tournaments') >= i
             /\ tournaments'[i] = tournaments[i]
             /\ ReceiptsOf(receipts', i - 1) = ReceiptsOf(receipts, i - 1)
             /\ \A a \in Accounts :
                   /\ distribute_rewards_panic(a, i - 1) # ""
                   /\ \A s \in Scores : publish_score_panic(a, i - 1, s) # ""
                   /\ \A c \in Countries, k \in OptionalKeys :
                         join_tournament_panic(a, i - 1, c, k) # ""]_vars

\* a CLOSED tournament with refunds scheduled, and an account that is not its
\* owner holding enough escrow to join it
C2_Witness ==
    \E i \in 1..Len(tournaments), a \in stakes :
        /\ tournaments[i].status = CLOSED
        /\ ReceiptsOf(receipts, i - 1) # <<>>
        /\ a # tournaments[i].owner
        /\ tournaments[i].ft_address \in DOMAIN stakes_g
        /\ stakes_g[tournaments[i].ft_address] >= tournaments[i].minimum_stake
        /\ last_call = "ft_on_transfer"

\* the sum of the stakes of the players at the positions S
RECURSIVE SumStakes(_, _)
SumStakes(players, S) ==
    IF S = {} THEN 0
    ELSE LET k == CHOOSE x \in S : TRUE
         IN players[k].stake_amount + SumStakes(players, S \ {k})

PoolOf(payouts, token) == IF token \in DOMAIN payouts THEN payouts[token] ELSE 0

CountryArgs == {None} \cup {Some(x) : x \in Countries}

\* C3: a distribute_rewards call that goes through on a PENDING_VOLUME
\* tournament is made by the platform owner at or after the deadline; it
\* schedules, in the tournament's token, as many transfers as there are
\* players that are not the tournament's owner, one of the player's full
\* stake_amount to each; it adds the stakes of the players that are the
\* tournament's owner to that token's commission pool and leaves the other
\* pools alone; and it leaves the tournament CLOSED.
C3_PendingSettlementRefunds ==
    [][\A a \in Accounts, id \in TournamentIds :
          (/\ last_call' = "distribute_rewards"
           /\ distribute_rewards(a, id)
           /\ tournaments[id + 1].status = PENDING_VOLUME) =>
             LET t == tournaments[id + 1]
                 new == SubSeq(receipts', Len(receipts) + 1, Len(receipts'))
                 others == {k \in 1..Len(t.players) : t.players[k].account_id # t.owner}
                 own == {k \in 1..Len(t.players) : t.players[k].account_id = t.owner}
             IN /\ a = owner
                /\ t.tournament_deadline <= block_timestamp_ms
                /\ SubSeq(receipts', 1, Len(receipts)) = receipts
                /\ Len(new) = Cardinality(others)
                /\ \A j \in 1..Len(new) : new[j].receiver_id = t.ft_address
                /\ \A k \in others :
                      Cardinality({j \in 1..Len(new) :
                                      /\ new[j].to = t.players[k].account_id
                                      /\ new[j].amount = t.players[k].stake_amount})
                      = Cardinality({j \in others :
                                      /\ t.players[j].account_id = t.players[k].account_id
                                      /\ t.players[j].stake_amount = t.players[k].stake_amount})
                /\ PoolOf(stake_payouts', t.ft_address)
                      = PoolOf(stake_payouts, t.ft_address) + SumStakes(t.players, own)
                /\ \A x \in Tokens \ {t.ft_address} :
                      MapGet(stake_payouts', x) = MapGet(stake_payouts, x)
                /\ tournaments'[id + 1] = [t EXCEPT !.status = CLOSED]]_vars

\* a settled PENDING_VOLUME tournament with its owner enrolled and two other
\* players, one of them staked above the minimum
C3_Witness ==
    /\ last_call = "distribute_rewards"
    /\ \E i \in 1..Len(tournaments) :
          LET t == tournaments[i]
          IN /\ t.status = CLOSED
             /\ Len(t.players) >= 3
             /\ t.players[1].account_id = t.owner
             /\ \E k \in 2..Len(t.players) : t.players[k].stake_amount > t.minimum_stake
             /\ Len(ReceiptsOf(receipts, i - 1)) = Len(t.players) - 1
             /\ PoolOf(stake_payouts, t.ft_address) = t.minimum_stake

\* C4: the platform owner's distribute_rewards call on an ACTIVE tournament
\* whose deadline has passed does not panic, whatever the player list.
C4_ActiveSettlementCompletes ==
    \A i \in 1..Len(tournaments) :
        (tournaments[i].status = ACTIVE
           /\ tournaments[i].tournament_deadline <= block_timestamp_ms)
        => distribute_rewards_panic(owner, i - 1) = ""

\* C5: a create_tournament or join_tournament call goes through only when
\* the contract reads a balance B of the tournament's token for the caller
\* with B >= the minimum stake (with no balance, or B below it, the call
\* panics, which changes nothing), and it leaves that balance 0; join
\* records B as the new player's stake_amount.
C5_EscrowIsSwept ==
    [][/\ last_call' = "create_tournament" =>
             \A a \in Creators, t \in CreateTokens, m \in MinimumStakes, n \in Names,
                k \in Keys, g \in GameTypeIds, f \in TournamentType,
                c \in CountryArgs, i \in Intervals :
                create_tournament(a, n, k, g, f, i, m, t, c) =>
                   /\ StakeIn(stakes, stakes_g, a, t) # None
                   /\ StakeIn(stakes, stakes_g, a, t)[1] >= m
                   /\ StakeIn(stakes', stakes_g', a, t) = Some(0)
       /\ last_call' = "join_tournament" =>
             \A a \in Accounts, id \in TournamentIds, c \in Countries,
                k \in OptionalKeys :
                join_tournament(a, id, c, k) =>
                   LET t == tournaments[id + 1]
                       B == StakeIn(stakes, stakes_g, a, t.ft_address)
                       joined == tournaments'[id + 1].players
                   IN /\ B # None
                      /\ B[1] >= t.minimum_stake
                      /\ joined[Len(joined)].account_id = a
                      /\ joined[Len(joined)].stake_amount = B[1]
                      /\ StakeIn(stakes', stakes_g', a, t.ft_address) = Some(0)]_vars

\* a join that swept more than the minimum stake
C5_Witness ==
    /\ last_call = "join_tournament"
    /\ \E i \in 1..Len(tournaments) :
          LET t == tournaments[i]
              p == t.players[Len(t.players)]
          IN /\ Len(t.players) >= 2
             /\ p.stake_amount > t.minimum_stake
             /\ StakeIn(stakes, stakes_g, p.account_id, t.ft_address) = Some(0)

\* C6: a deposit for (sender, token) adds the amount to the balance of that
\* pair and changes the balance of no other pair; a create or join changes
\* the balance of no account but the caller.
C6_LedgerPerDepositor ==
    [][/\ \A t \in Tokens, a \in Accounts, n \in Amounts :
             ft_on_transfer(t, a, n) =>
                /\ StakeIn(stakes', stakes_g', a, t)
                     = Some(unwrap_or_zero(StakeIn(stakes, stakes_g, a, t)) + n)
                /\ \A a2 \in Accounts, t2 \in Tokens :
                      <<a2, t2>> # <<a, t>> =>
                         StakeIn(stakes', stakes_g', a2, t2)
                           = StakeIn(stakes, stakes_g, a2, t2)
       /\ \A a \in Accounts :
             (\/ \E n \in Names, k \in Keys, g \in GameTypeIds,
                    f \in TournamentType, i \in Intervals, m \in MinimumStakes,
                    t \in CreateTokens, c \in CountryArgs :
                    create_tournament(a, n, k, g, f, i, m, t, c)
              \/ \E id \in TournamentIds, c \in Countries, k \in OptionalKeys :
                    join_tournament(a, id, c, k)) =>
                \A a2 \in Accounts \ {a}, t2 \in Tokens :
                   StakeIn(stakes', stakes_g', a2, t2)
                     = StakeIn(stakes, stakes_g, a2, t2)]_vars

\* C7: a publish_score(tournament, s) call that goes through adds s to the
\* score and 1 to the games played of the entries of the caller, and leaves
\* the other entries as they were.
C7_PublishAccumulates ==
    [][\A a \in Accounts, id \in TournamentIds, s \in Scores :
          (last_call' = "publish_score" /\ publish_score(a, id, s)) =>
             LET before == tournaments[id + 1].players
                 after == tournaments'[id + 1].players
             IN /\ Len(after) = Len(before)
                /\ \A k \in 1..Len(before) :
                      IF before[k].account_id = a
                      THEN /\ after[k].score = before[k].score + s
                           /\ after[k].number_of_games_played
                                = before[k].number_of_games_played + 1
                      ELSE after[k] = before[k]]_vars

\* C8: a join_tournament call that goes through appends one entry to the
\* players of its tournament and changes no other entry of any tournament;
\* and the entry at position k of a tournament has id k.
C8_JoinAppendsOne ==
    [][/\ \A a \in Accounts, id \in TournamentIds, c \in Countries,
             k \in OptionalKeys :
             (last_call' = "join_tournament" /\ join_tournament(a, id, c, k)) =>
                /\ Len(tournaments') = Len(tournaments)
                /\ \A i \in 1..Len(tournaments) :
                      IF i = id + 1
                      THEN /\ Len(tournaments'[i].players)
                                = Len(tournaments[i].players) + 1
                           /\ SubSeq(tournaments'[i].players, 1,
                                     Len(tournaments[i].players))
                                = tournaments[i].players
                      ELSE tournaments'[i].players = tournaments[i].players
       /\ \A i \in 1..Len(tournaments') :
             \A k \in 1..Len(tournaments'[i].players) :
                tournaments'[i].players[k].id = k]_vars

\* a tournament with the creator enrolled and two joins
C8_Witness ==
    /\ last_call = "join_tournament"
    /\ \E i \in 1..Len(tournaments) :
          /\ Len(tournaments[i].players) >= 3
          /\ tournaments[i].players[1].account_id = tournaments[i].owner

\* C9: a join_tournament call that goes through leaves a PENDING_VOLUME
\* tournament PENDING_VOLUME when the player count stays below
\* min_tournament_players, leaves the tournament ACTIVE when the count
\* reaches min_tournament_players or more, and leaves an ACTIVE tournament
\* ACTIVE.
C9_QuorumActivates ==
    [][\A a \in Accounts, id \in TournamentIds, c \in Countries,
          k \in OptionalKeys :
          (last_call' = "join_tournament" /\ join_tournament(a, id, c, k)) =>
             LET before == tournaments[id + 1]
                 after == tournaments'[id + 1]
             IN /\ (before.status = PENDING_VOLUME
                      /\ Len(after.players) < min_tournament_players)
                   => after.status = PENDING_VOLUME
                /\ Len(after.players) >= min_tournament_players
                   => after.status = ACTIVE
                /\ before.status = ACTIVE => after.status = ACTIVE]_vars

\* the join after the one that reached a quorum of 4, the creator counted
C9_Witness ==
    /\ last_call = "join_tournament"
    /\ min_tournament_players = 4
    /\ \E i \in 1..Len(tournaments) :
          /\ tournaments[i].status = ACTIVE
          /\ Len(tournaments[i].players) = 5
          /\ tournaments[i].players[1].account_id = tournaments[i].owner

\* C10: a join_tournament call that goes through is made before the
\* deadline by an account that is not the tournament's owner, with the
\* stored key when the tournament is PRIVATE and with the tournament's
\* country when it is COUNTRY_BASED; and where it goes through on a PUBLIC
\* tournament, it goes through with every other key and country as well.
C10_AdmissionControl ==
    [][\A a \in Accounts, id \in TournamentIds, c \in Countries,
          k \in OptionalKeys :
          (last_call' = "join_tournament" /\ join_tournament(a, id, c, k)) =>
             LET t == tournaments[id + 1]
             IN /\ a # t.owner
                /\ block_timestamp_ms < t.tournament_deadline
                /\ t.tournament_type = PRIVATE => k = Some(t.tournament_key)
                /\ t.tournament_type = COUNTRY_BASED => c = t.country
                /\ t.tournament_type = PUBLIC =>
                      \A c2 \in Countries, k2 \in OptionalKeys :
                         join_tournament_panic(a, id, c2, k2) = ""]_vars

\* a PRIVATE tournament that an account other than its owner has joined
C10_Witness ==
    /\ last_call = "join_tournament"
    /\ \E i \in 1..Len(tournaments) :
          /\ tournaments[i].tournament_type = PRIVATE
          /\ \E k \in 1..Len(tournaments[i].players) :
                tournaments[i].players[k].account_id # tournaments[i].owner

\* C11: a step that closes a tournament, schedules a transfer or changes the
\* commission pool is a distribute_rewards call of the platform owner that
\* resolves to a tournament whose deadline has been reached and that is not
\* CLOSED, and it touches no other tournament; a distribute_rewards call by
\* any other account, before the deadline, or on a CLOSED tournament panics.
C11_OnlyOwnerSettles ==
    [][/\ (\/ receipts' # receipts
           \/ stake_payouts' # stake_payouts
           \/ \E i \in 1..Len(tournaments) :
                 tournaments[i].status # CLOSED /\ tournaments'[i].status = CLOSED)
          => \E id \in TournamentIds :
                /\ last_call' = "distribute_rewards"
                /\ distribute_rewards(owner, id)
                /\ tournaments[id + 1].tournament_deadline <= block_timestamp_ms
                /\ tournaments[id + 1].status # CLOSED
                /\ tournaments'[id + 1].status = CLOSED
                /\ \A j \in 1..Len(tournaments) : j # id + 1 => tournaments'[j] = tournaments[j]
                /\ ReceiptsOf(receipts', id) = ReceiptsOf(receipts, id) \o SubSeq(receipts', Len(receipts) + 1, Len(receipts'))
       /\ \A a \in Accounts, id \in TournamentIds :
             (/\ id < Len(tournaments)
              /\ \/ a # owner
                 \/ tournaments[id + 1].tournament_deadline > block_timestamp_ms
                 \/ tournaments[id + 1].status = CLOSED)
             => distribute_rewards_panic(a, id) # ""]_vars

\* the platform owner has just settled a tournament with three players at
\* its deadline, and two refunds were scheduled
C11_Witness ==
    /\ last_call = "distribute_rewards"
    /\ \E i \in 1..Len(tournaments) :
          /\ tournaments[i].status = CLOSED
          /\ tournaments[i].tournament_deadline = block_timestamp_ms
          /\ Len(tournaments[i].players) = 3
          /\ Len(ReceiptsOf(receipts, i - 1)) = 2

\* the values of last_call after a call that panicked
Panicked ==
    {"create_tournament panicked", "join_tournament panicked",
     "publish_score panicked", "distribute_rewards panicked"}

WideIds == 0..MaxWide

\* C13: no two stored tournaments share an id, a name or a tournament_key;
\* create_tournament panics when the given key or the given name is that of
\* a stored tournament, and a create_tournament that returns appends one
\* tournament whose id is the number of tournaments stored before, plus one.
C13_TournamentsAreUnique ==
    [][/\ \A i, j \in 1..Len(tournaments') :
             i # j => /\ tournaments'[i].id # tournaments'[j].id
                      /\ tournaments'[i].name # tournaments'[j].name
                      /\ tournaments'[i].tournament_key # tournaments'[j].tournament_key
       /\ \A a \in Creators, n \in WideNames, k \in WideKeys, g \in GameTypeIds,
             f \in {PUBLIC, PRIVATE}, m \in WideMinimumStakes, t \in CreateTokens :
             (\E i \in 1..Len(tournaments) :
                  tournaments[i].name = n \/ tournaments[i].tournament_key = k)
             => create_tournament_panic(a, n, k, g, f, m, t, None) # ""
       /\ \A a \in Creators, n \in WideNames, k \in WideKeys, g \in GameTypeIds,
             f \in {PUBLIC, PRIVATE}, i \in Intervals, m \in WideMinimumStakes,
             t \in CreateTokens :
             (last_call' = "create_tournament"
                /\ create_tournament(a, n, k, g, f, i, m, t, None))
             => /\ Len(tournaments') = Len(tournaments) + 1
                /\ SubSeq(tournaments', 1, Len(tournaments)) = tournaments
                /\ tournaments'[Len(tournaments')].id = Len(tournaments) + 1
                /\ tournaments'[Len(tournaments')].name = n
                /\ tournaments'[Len(tournaments')].tournament_key = k]_vars

\* two tournaments are stored
C13_Witness ==
    /\ last_call = "create_tournament"
    /\ Len(tournaments) = 2
    /\ tournaments[2].id = 2
    /\ tournaments[2].name # tournaments[1].name

NOT_FOUND == "Tournament with provided ID does not exist"

\* C14: a join_tournament or distribute_rewards call that returns has
\* updated the stored tournament whose id field is the tournament_id given,
\* and no other; a join_tournament, publish_score or distribute_rewards call
\* with a tournament_id that no stored tournament carries panics as not
\* found.
C14_IdResolvesToItsTournament ==
    [][/\ \A a \in Accounts, id \in WideIds, c \in Countries, k \in OptionalKeys :
             (last_call' = "join_tournament" /\ join_tournament(a, id, c, k)) =>
                \E i \in 1..Len(tournaments) :
                   /\ tournaments[i].id = id
                   /\ Len(tournaments'[i].players) = Len(tournaments[i].players) + 1
                   /\ \A j \in 1..Len(tournaments) : j # i => tournaments'[j] = tournaments[j]
       /\ \A a \in Accounts, id \in WideIds :
             (last_call' = "distribute_rewards" /\ distribute_rewards(a, id)) =>
                \E i \in 1..Len(tournaments) :
                   /\ tournaments[i].id = id
                   /\ tournaments'[i].status = CLOSED
                   /\ \A j \in 1..Len(tournaments) : j # i => tournaments'[j] = tournaments[j]
       /\ \A a \in Accounts, id \in WideIds :
             (\A i \in 1..Len(tournaments) : tournaments[i].id # id) =>
                /\ distribute_rewards_panic(a, id) = NOT_FOUND
                /\ \A s \in Scores : publish_score_panic(a, id, s) = NOT_FOUND
                /\ \A c \in Countries, k \in OptionalKeys :
                      join_tournament_panic(a, id, c, k) = NOT_FOUND]_vars

\* C15: a create_tournament that returns stores the balance it consumed as
\* the tournament's total_stake, a join_tournament that returns adds the
\* balance it consumed to it, and a distribute_rewards that returns on an
\* ACTIVE tournament adds floor(percentage_stake_commission * total_stake /
\* 10000) to the commission pool of the tournament's token.
C15_TotalStakeIsThePool ==
    [][/\ \A a \in Creators, n \in Names, k \in Keys, g \in GameTypeIds,
             f \in TournamentType, i \in Intervals, m \in MinimumStakes,
             t \in CreateTokens, c \in CountryArgs :
             (last_call' = "create_tournament"
                /\ create_tournament(a, n, k, g, f, i, m, t, c))
             => tournaments'[Len(tournaments')].total_stake
                   = StakeIn(stakes, stakes_g, a, t)[1]
       /\ \A a \in Accounts, id \in TournamentIds, c \in Countries, k \in OptionalKeys :
             (last_call' = "join_tournament" /\ join_tournament(a, id, c, k))
             => tournaments'[id + 1].total_stake
                   = tournaments[id + 1].total_stake
                     + StakeIn(stakes, stakes_g, a, tournaments[id + 1].ft_address)[1]
       /\ \A a \in Accounts, id \in TournamentIds :
             (last_call' = "distribute_rewards" /\ distribute_rewards(a, id)
                /\ tournaments[id + 1].status = ACTIVE)
             => LET t == tournaments[id + 1]
                IN PoolOf(stake_payouts', t.ft_address)
                     = PoolOf(stake_payouts, t.ft_address)
                       + (percentage_stake_commission * t.total_stake) \div 10000]_vars

\* C16: whatever commission new or set_percentage_stake_commission has
\* accepted, 10000 - commission does not underflow, get_position_prizes
\* gives floor(50%), floor(34%) and floor(16%) of it, and the three weights
\* add up to at least 10000 - commission - 2 and at most 10000 - commission.
C16_PrizeWeights ==
    LET R == percentage_stake_commission
        prizes == get_position_prizes
    IN /\ ~percentage_to_pay_underflows
       /\ prizes = << (50 * (10000 - R)) \div 100, (34 * (10000 - R)) \div 100,
                      (16 * (10000 - R)) \div 100 >>
       /\ prizes[1] + prizes[2] + prizes[3] >= 10000 - R - 2
       /\ prizes[1] + prizes[2] + prizes[3] <= 10000 - R

\* C17: a create_tournament that returns has stored a PENDING_VOLUME
\* tournament owned by the caller; its player list is the caller alone, as
\* player 1 with stake_amount = minimum_stake, score 0 and no game played,
\* when the caller is not the platform owner, and empty when it is.
C17_CreatorIsEnrolled ==
    [][\A a \in Creators, n \in Names, k \in Keys, g \in GameTypeIds,
          f \in TournamentType, i \in Intervals, m \in MinimumStakes,
          t \in CreateTokens, c \in CountryArgs :
          (last_call' = "create_tournament"
             /\ create_tournament(a, n, k, g, f, i, m, t, c))
          => LET created == tournaments'[Len(tournaments')]
             IN /\ created.status = PENDING_VOLUME
                /\ created.owner = a
                /\ a # owner =>
                      created.players =
                         << [id |-> 1, account_id |-> a, stake_amount |-> m,
                             score |-> 0, number_of_games_played |-> 0] >>
                /\ a = owner => created.players = <<>>]_vars

\* an account that is not the platform owner has just created a tournament
\* with a minimum stake below the balance the call consumed
C17_Witness ==
    /\ last_call = "create_tournament"
    /\ Len(tournaments) = 1
    /\ tournaments[1].owner # owner
    /\ Len(tournaments[1].players) = 1
    /\ tournaments[1].players[1].stake_amount < MaxBalance

\* the values of last_call after a scheduled transfer has run
Resolved == {"ft_transfer succeeded", "ft_transfer failed"}

\* C18: a distribute_rewards call that returns on a PENDING_VOLUME or
\* ACTIVE tournament has stored it as CLOSED in the same step in which its
\* transfers are scheduled; the outcome of a scheduled transfer, failure
\* included, changes nothing of the contract's state and schedules nothing;
\* and no step schedules a further transfer for a CLOSED tournament or
\* changes it.
C18_FireAndForget ==
    [][/\ \A a \in Accounts, id \in TournamentIds :
             (last_call' = "distribute_rewards" /\ distribute_rewards(a, id))
             => tournaments'[id + 1].status = CLOSED
       /\ \A i \in 1..MaxPlayers, ok \in BOOLEAN :
             (last_call' \in Resolved /\ ft_transfer_outcome(i, ok))
             => UNCHANGED <<contract, receipts>>
       /\ \A i \in 1..Len(tournaments) :
             tournaments[i].status = CLOSED =>
                /\ tournaments'[i] = tournaments[i]
                /\ ReceiptsOf(receipts', i - 1) = ReceiptsOf(receipts, i - 1)]_vars

\* a refund of a CLOSED tournament has failed, and the account it was for
\* has no escrow balance
C18_Witness ==
    /\ last_call = "ft_transfer failed"
    /\ \E i \in 1..Len(tournaments) :
          /\ tournaments[i].status = CLOSED
          /\ ReceiptsOf(receipts, i - 1) # <<>>
          /\ StakeIn(stakes, stakes_g, receipts[1].to, receipts[1].receiver_id) = Some(0)

\* C19: the platform owner changes only in an accept_ownership call made by
\* the account the owner has proposed with transfer_ownership.  No
\* transfer_ownership call proposes the contract's own account here
\* (NewOwners), so only a pending_owner other than it is a proposal.
C19_OwnerChangesByAcceptance ==
    [][owner' # owner =>
          /\ last_call' = "accept_ownership"
          /\ accept_ownership(pending_owner)
          /\ owner' = pending_owner
          /\ pending_owner \in NewOwners]_vars

\* C20: no account has two entries in the player list of a tournament.
C20_PlayersAreDistinct ==
    \A i \in 1..Len(tournaments) :
        \A p, q \in 1..Len(tournaments[i].players) :
            p # q => tournaments[i].players[p].account_id
                        # tournaments[i].players[q].account_id

\* the sum of the amounts of the transfers rs
RECURSIVE SumAmounts(_)
SumAmounts(rs) == IF rs = <<>> THEN 0 ELSE Head(rs).amount + SumAmounts(Tail(rs))

\* what is known, from the stored tournament alone, to have been consumed
\* for it: the minimum stake its creation required, and the balance each
\* join recorded as stake_amount (the tournament's owner cannot join)
Consumed(t) ==
    t.minimum_stake
      + SumStakes(t.players, {k \in 1..Len(t.players) : t.players[k].account_id # t.owner})

\* C21: Consumed never exceeds the escrow the contract took for the
\* tournament (create_tournament consumes at least Consumed of the new
\* tournament, join_tournament adds exactly the balance it consumes, every
\* other step leaves it alone), and a distribute_rewards that returns
\* schedules transfers and a commission credit that add up to at most
\* Consumed of the tournament it settles.
C21_PaysAtMostWhatItTook ==
    [][/\ \A a \in Creators, n \in Names, k \in Keys, g \in GameTypeIds,
             f \in TournamentType, i \in Intervals, m \in MinimumStakes,
             t \in CreateTokens, c \in CountryArgs :
             (last_call' = "create_tournament"
                /\ create_tournament(a, n, k, g, f, i, m, t, c))
             => Consumed(tournaments'[Len(tournaments')])
                   <= StakeIn(stakes, stakes_g, a, t)[1]
       /\ \A a \in Accounts, id \in TournamentIds, c \in Countries, k \in OptionalKeys :
             (last_call' = "join_tournament" /\ join_tournament(a, id, c, k))
             => Consumed(tournaments'[id + 1])
                   = Consumed(tournaments[id + 1])
                     + StakeIn(stakes, stakes_g, a, tournaments[id + 1].ft_address)[1]
       /\ \A j \in 1..Len(tournaments) :
             last_call' \notin {"create_tournament", "join_tournament"}
             => Consumed(tournaments'[j]) = Consumed(tournaments[j])
       /\ \A a \in Accounts, id \in TournamentIds :
             (last_call' = "distribute_rewards" /\ distribute_rewards(a, id))
             => LET t == tournaments[id + 1]
                    new == SubSeq(receipts', Len(receipts) + 1, Len(receipts'))
                IN /\ SubSeq(receipts', 1, Len(receipts)) = receipts
                   /\ \A x \in Tokens \ {t.ft_address} :
                         PoolOf(stake_payouts', x) = PoolOf(stake_payouts, x)
                   /\ SumAmounts(new)
                        + (PoolOf(stake_payouts', t.ft_address)
                             - PoolOf(stake_payouts, t.ft_address))
                      <= Consumed(t)]_vars

\* a settlement has scheduled refunds and credited the stake of the
\* tournament's owner, and together they are the whole of Consumed
C21_Witness ==
    /\ last_call = "distribute_rewards"
    /\ \E i \in 1..Len(tournaments) :
          LET t == tournaments[i]
          IN /\ t.status = CLOSED
             /\ Len(t.players) >= 2
             /\ t.players[1].account_id = t.owner
             /\ SumAmounts(ReceiptsOf(receipts, i - 1)) + PoolOf(stake_payouts, t.ft_address)
                   = Consumed(t)

\* C22: a withdraw_value that returns has sent at most what the commission
\* pool of the token held, and has reduced that pool by the amount sent (so
\* that the withdrawals of a token never add up to more than was accrued
\* to its pool).
C22_WithdrawalReducesPool ==
    [][\A a \in Accounts, x \in CreateTokens,
          amt \in {None} \cup {Some(n) : n \in WithdrawAmounts} :
          (last_call' = "withdraw_value" /\ withdraw_value(a, OWNER, x, amt))
          => LET sent == receipts'[Len(receipts')].amount
             IN /\ sent <= PoolOf(stake_payouts, x)
                /\ PoolOf(stake_payouts', x) = PoolOf(stake_payouts, x) - sent]_vars

\* C23: game_types is empty in every state reachable from new, whatever
\* public method is called; every create_tournament call panics there, on
\* its game-type check when its country checks pass, and no tournament is
\* ever stored.
C23_NoGameTypeNoTournament ==
    /\ game_types = <<>>
    /\ tournaments = <<>>
    /\ \A a \in Creators, n \in Names, k \in Keys, g \in GameTypeIds,
          f \in TournamentType, m \in MinimumStakes, t \in CreateTokens,
          c \in CountryArgs :
          create_tournament_panic(a, n, k, g, f, m, t, c) \in
             IF f = COUNTRY_BASED /\ c = None
             THEN {"Country based tournament requires a country to be passed"}
             ELSE IF f = COUNTRY_BASED /\ ~check_supported_country(c[1])
             THEN {"Country code entered is not supported"}
             ELSE {"No tournament with provided game type"}

\* a create_tournament call has panicked although the caller holds the
\* escrow the call asks for
C23_Witness ==
    /\ last_call = "create_tournament panicked"
    /\ \E a \in Creators, t \in CreateTokens :
          /\ StakeIn(stakes, stakes_g, a, t) # None
          /\ StakeIn(stakes, stakes_g, a, t)[1] >= 2

====
